---- MODULE Spec2Model ----
(***************************************************************************)
(* Model of the resource cache database of Krita,                          *)
(* src/libs/resources/KisResourceCacheDb.cpp.                              *)
(*                                                                         *)
(* The state is the content of the SQLite database file (the eight tables)  *)
(* plus the process state (the validity flag and the connection).  Every    *)
(* public operation of KisResourceCacheDb is one action; the statements it  *)
(* runs are operators over a record holding the database.                  *)
(***************************************************************************)
EXTENDS Integers, Sequences, FiniteSets, Bags, TLC

\* ---------------------------------------------------------------- bounds
\* rows of versioned_resources / resources / tags / resource_tags a run may reach
MaxVersionRows == 4
MaxResourceRows == 2
MaxTagRows == 1
MaxResourceTagRows == 1
\* items an iterator yields in one batch
MaxBatch == 2
\* the same, for the runs that follow the whole life of the database file
SmallVersionRows == 2
\* rows of versioned_resources in the runs of the folder synchronization
SyncVersionRows == 7
SmallBatch == 1
\* rows of versioned_resources in the runs with a resource two storages share
SharedVersionRows == 3
\* rows of tags / resource_tags in the runs of the tag catalog
CatalogTagRows == 2
\* the statement of a loop of initDb at which the environment can fail
MaxFailureIndex == 2

\* ------------------------------------------------------- program constants
\* resourceIdForResource's "not found" value
NotFound == -1
\* the value of a scalar subquery without rows (SQL NULL) in an id column
NullId == 0
\* QSqlQuery::size() of a driver without the QuerySize feature (QSQLITE)
QuerySize == -1

dbDriver == "QSQLITE"
databaseVersion == "0.0.1"
storageTypes == <<"UNKNOWN", "FOLDER", "BUNDLE", "ADOBE_BRUSH_LIBRARY", "ADOBE_STYLE_LIBRARY">>
tables == <<"version_information", "origin_types", "resource_types", "storages",
            "tags", "resources", "versioned_resources", "resource_tags">>
indexes == <<"storages">>

\* KisResourceLoaderRegistry::instance()->resourceTypes()
resourceTypes == <<"brushes", "patterns">>

RECURSIVE SeqsUpTo(_, _)
SeqsUpTo(S, n) ==
    IF n = 0 THEN {<<>>}
    ELSE LET shorter == SeqsUpTo(S, n - 1)
         IN shorter \cup {Append(s, x) : s \in {t \in shorter : Len(t) = n - 1}, x \in S}

Range(s) == {s[i] : i \in 1..Len(s)}

\* ------------------------------------------------------------ input domain
\* Seconds since the epoch: two instants of November 2018, a second apart.
Seconds == {1541030400, 1541030401}
EarlySecond == CHOOSE t \in Seconds : \A u \in Seconds : t <= u
\* A later instant whose millisecond count, cut to 32 bits, is positive.
LateSecond == CHOOSE t \in {1543436696} : TRUE

\* the objects a caller can pass as KisResourceStorageSP
Storage(location, type, secs) ==
    [location |-> location, type |-> type, timestamp |-> [secs |-> secs, ms |-> 0]]
FolderStorages == {Storage("folder", "FOLDER", EarlySecond)}
BundleStorages == {Storage("bundle", "BUNDLE", t) : t \in {EarlySecond, LateSecond}}

Filenames == {"folder/brushes/a.gbr", "b.gbr"}
Checksums == {"md5-1", "md5-2"}
\* the objects a caller or an iterator can pass as KoResourceSP
NullResource == [null |-> TRUE]
Resource(filename, md5, valid) ==
    [null |-> FALSE, valid |-> valid, filename |-> filename, name |-> filename,
     md5 |-> md5]
ValidResourceObjects == {Resource(f, c, TRUE) : f \in Filenames, c \in Checksums}
InvalidResource == Resource("b.gbr", "md5-1", FALSE)

TagUrls == {"tag-1"}
CatalogTagUrls == {"tag-1", "tag-2"}
\* a resource type name that no loader has registered
UnregisteredType == "gradients"
\* what a TagIterator yields: url()/name()/comment() and tag()->defaultResources()
TagItems == [url : TagUrls, defaultResources : {<<>>, <<"a.gbr">>}]

\* what a ResourceIterator yields: resource(), lastModified(), type()
IteratorItems(resourceObjects, seconds, types, resourceType) ==
    IF resourceType \in types
    THEN [resource : resourceObjects, lastModified : seconds, type : {resourceType}]
    ELSE {}

\* what a folder yields to synchronizeStorage: one sequence of items for each
\* registered resource type, n items at most in all
RECURSIVE SumLen(_)
SumLen(c) == IF c = <<>> THEN 0 ELSE Len(Head(c)) + SumLen(Tail(c))
FolderContents(resourceObjects, seconds, types, n) ==
    {c \in SeqsUpTo(UNION {SeqsUpTo(IteratorItems(resourceObjects, seconds, types, t), n) :
                              t \in Range(resourceTypes)},
                    Len(resourceTypes)) :
        /\ Len(c) = Len(resourceTypes)
        /\ \A i \in 1..Len(c) : \A j \in 1..Len(c[i]) : c[i][j].type = resourceTypes[i]
        /\ SumLen(c) <= n}

\* What one run covers: the arguments its calls take, the failures of the
\* environment and the rows it may reach.
Scope(storageObjects, resourceObjects, seconds, failures, versionRows, n) ==
    [storages |-> storageObjects,
     resources |-> resourceObjects,
     seconds |-> seconds,
     types |-> {resourceTypes[1]},
     batches |-> [t \in {resourceTypes[1]} |->
                    SeqsUpTo(IteratorItems(resourceObjects, seconds, {resourceTypes[1]}, t), n)],
     contents |-> FolderContents(resourceObjects, seconds, {resourceTypes[1]}, n),
     tagBatches |-> SeqsUpTo(TagItems, n),
     tagTypes |-> {resourceTypes[1]},
     tagUrls |-> TagUrls,
     failures |-> failures,
     versionRows |-> versionRows,
     resourceRows |-> MaxResourceRows,
     tagRows |-> MaxTagRows,
     resourceTagRows |-> MaxResourceTagRows]

IndexScope ==
    Scope(FolderStorages, {Resource(f, "md5-1", TRUE) : f \in Filenames}, Seconds,
          {"none"}, MaxVersionRows, MaxBatch)

VersionScope ==
    Scope(FolderStorages, {Resource("b.gbr", c, TRUE) : c \in Checksums}, Seconds,
          {"none"}, MaxVersionRows, SmallBatch)

\* a folder that exposes the same two resources at every pass
SyncScope ==
    [IndexScope EXCEPT
        !.contents = {c \in @ : /\ Len(c[1]) = 2
                                /\ c[1][1].resource.filename = "b.gbr"
                                /\ c[1][2].resource.filename # "b.gbr"},
        !.versionRows = SyncVersionRows]

StorageScope ==
    Scope(FolderStorages \cup BundleStorages,
          {Resource(f, "md5-1", TRUE) : f \in Filenames}, {EarlySecond},
          {"none"}, SmallVersionRows, SmallBatch)

\* a folder whose resources are indexed by a process that can be killed
CrashScope ==
    Scope(FolderStorages, {Resource(f, "md5-1", TRUE) : f \in Filenames}, {EarlySecond},
          {"none"}, SmallVersionRows, SmallBatch)

\* one resource that a folder and a bundle both hold
SharedScope ==
    Scope(FolderStorages \cup {Storage("bundle", "BUNDLE", EarlySecond)},
          {Resource("b.gbr", "md5-1", TRUE)}, {EarlySecond},
          {"none"}, SharedVersionRows, SmallBatch)

LifecycleScope ==
    Scope(FolderStorages,
          {Resource("folder/brushes/a.gbr", "md5-1", TRUE), InvalidResource, NullResource},
          {EarlySecond},
          {"none", "open", "create", "index", "fill_origin_types",
           "fill_resource_types", "fill_version_information"},
          SmallVersionRows, SmallBatch)

\* a storage that exposes a resource that loads and one that does not, and
\* tags with and without default resources; callers that also name a resource
\* type that is not registered
CatalogScope ==
    [Scope(FolderStorages,
           {Resource("folder/brushes/a.gbr", "md5-1", TRUE), InvalidResource, NullResource},
           {EarlySecond}, {"none"}, SmallVersionRows, MaxBatch)
     EXCEPT !.tagTypes = {resourceTypes[1], UnregisteredType},
            !.tagUrls = CatalogTagUrls,
            !.tagBatches = SeqsUpTo({[url |-> "tag-1", defaultResources |-> <<"a.gbr">>],
                                     [url |-> "tag-2", defaultResources |-> <<>>]},
                                    MaxBatch),
            !.tagRows = CatalogTagRows,
            !.resourceTagRows = MaxResourceTagRows]

\* ------------------------------------------------------------------ state
VARIABLES
    s_valid,              \* KisResourceCacheDb::s_valid
    connected,            \* QSqlDatabase::connectionNames() is not empty
    dbOpen,               \* the default connection is open
    dbTables,             \* db.tables(): the tables of the database file
    version_information,  \* rows, as the sequence of schema versions
    origin_types,         \* rows, as the sequence of names
    resource_types,       \* rows, as the sequence of names
    storages,             \* set of rows (id is the key)
    resources,            \* set of rows (id is the key)
    versioned_resources,  \* bag of rows
    tags,                 \* set of rows (id is the key)
    resource_tags,        \* bag of rows
    last                  \* the last call: operation, arguments, result, callees

tableVars == <<dbTables, version_information, origin_types, resource_types,
               storages, resources, versioned_resources, tags, resource_tags>>
vars == <<s_valid, connected, dbOpen, dbTables, version_information, origin_types,
          resource_types, storages, resources, versioned_resources, tags,
          resource_tags, last>>

\* the database as one value, as the statements below see it
Db ==
    [open |-> dbOpen, tables |-> dbTables,
     version_information |-> version_information,
     origin_types |-> origin_types, resource_types |-> resource_types,
     storages |-> storages, resources |-> resources,
     versioned_resources |-> versioned_resources,
     tags |-> tags, resource_tags |-> resource_tags]

SetDb(D) ==
    /\ dbOpen' = D.open
    /\ dbTables' = D.tables
    /\ version_information' = D.version_information
    /\ origin_types' = D.origin_types
    /\ resource_types' = D.resource_types
    /\ storages' = D.storages
    /\ resources' = D.resources
    /\ versioned_resources' = D.versioned_resources
    /\ tags' = D.tags
    /\ resource_tags' = D.resource_tags

\* ------------------------------------------------------------ SQL helpers
\* Statements whose text SQLite cannot parse: prepare() and exec() fail.
\*   update_resource           "... thumbnail = :thumbnail)\nWHERE ..."
\*   delete_*                  "DELETE FROM resources" "WHERE ..." (no blank
\*                             between the literals, subselects without FROM)
\*   clear_*                   "DELETE * FROM ..."
MalformedStatements ==
    {"update_resource", "delete_resources", "delete_versioned_resources",
     "delete_storages", "clear_origin_types", "clear_resource_types"}

\* QSqlQuery::prepare / exec succeed: the connection is open, the text is SQL
\* and the tables it names exist.
Prepares(D, statement, used) ==
    /\ D.open
    /\ statement \notin MalformedStatements
    /\ used \subseteq D.tables

\* The constraints of the tables (create_<table>.sql): what the data model
\* states.  storages.location is unique, a tag's url is unique within its
\* resource type, the other tables take any row; SQLite checks no foreign key
\* unless PRAGMA foreign_keys is set, and initDb does not set it.
Accepts(D, table, row) ==
    CASE table = "storages" -> \A r \in D.storages : r.location # row.location
      [] table = "tags" ->
            \A r \in D.tags : ~(/\ r.url = row.url
                                /\ r.resource_type_id # NullId
                                /\ r.resource_type_id = row.resource_type_id)
      [] OTHER -> TRUE

\* the next rowid of a table with an INTEGER PRIMARY KEY
NextId(rows) ==
    IF rows = {} THEN 1
    ELSE (CHOOSE m \in {r.id : r \in rows} : \A r \in rows : r.id <= m) + 1

\* QDateTime::toMSecsSinceEpoch() read back through QVariant::toInt(): the
\* 64-bit count seconds * 1000 + ms cut to its low 32 bits (two's complement),
\* computed on 16-bit halves.
MSecsToInt(t) ==
    LET lo == t.secs % 65536
        hi == t.secs \div 65536
        a == lo * 1000 + t.ms
        low16 == a % 65536
        high16 == ((a \div 65536) + hi * 1000) % 65536
    IN  IF high16 >= 32768 THEN (high16 - 65536) * 65536 + low16
        ELSE high16 * 65536 + low16

\* QVariant::toInt() of a stored count of seconds: its low 32 bits
SecsToInt(secs) ==
    LET low16 == secs % 65536
        high16 == (secs \div 65536) % 65536
    IN  IF high16 >= 32768 THEN (high16 - 65536) * 65536 + low16
        ELSE high16 * 65536 + low16

Outcome(D, r, c) == [db |-> D, ret |-> r, calls |-> c]

WithinBounds(S, D) ==
    /\ BagCardinality(D.versioned_resources) <= S.versionRows
    /\ Cardinality(D.resources) <= S.resourceRows
    /\ Cardinality(D.tags) <= S.tagRows
    /\ BagCardinality(D.resource_tags) <= S.resourceTagRows

\* ------------------------------------------------------- Resource Index
\* (SELECT id FROM resource_types WHERE name = :resource_type)
ResourceTypeId(D, name) ==
    IF \E i \in 1..Len(D.resource_types) : D.resource_types[i] = name
    THEN CHOOSE i \in 1..Len(D.resource_types) :
            /\ D.resource_types[i] = name
            /\ \A j \in 1..(i - 1) : D.resource_types[j] # name
    ELSE NullId

\* (SELECT id FROM storages WHERE location = :storage_location)
StorageId(D, location) ==
    IF \E s \in D.storages : s.location = location
    THEN (CHOOSE s \in D.storages : s.location = location).id
    ELSE NullId

\* select_resource_id.sql: the ids of the resources with this filename and
\* this resource type
SelectResourceId(D, resourceFileName, resourceType) ==
    {r.id : r \in {x \in D.resources :
                     /\ x.filename = resourceFileName
                     /\ x.resource_type_id # NullId
                     /\ x.resource_type_id = ResourceTypeId(D, resourceType)}}

ResourceIdForResource(D, resourceFileName, resourceType) ==
    IF ~Prepares(D, "select_resource_id", {"resources", "resource_types"})
    THEN NotFound
    ELSE LET ids == SelectResourceId(D, resourceFileName, resourceType)
         IN  IF ids = {} THEN NotFound
             ELSE CHOOSE i \in ids : \A j \in ids : i <= j

VersionsOf(D, resourceId) ==
    {v \in BagToSet(D.versioned_resources) : v.resource_id = resourceId}

\* (SELECT MAX(version) FROM versioned_resources WHERE resource_id = :resource_id)
MaxVersion(D, resourceId) ==
    LET vs == {v.version : v \in VersionsOf(D, resourceId)}
    IN  IF vs = {} THEN NullId ELSE CHOOSE m \in vs : \A v \in vs : v <= m

\* resourceNeedsUpdating with >= in the place of >
ResourceNeedsUpdatingOrEqual(D, resourceId, timestamp) ==
    IF ~Prepares(D, "select_latest_timestamp", {"versioned_resources"})
    THEN {FALSE}
    ELSE LET latest == {v \in VersionsOf(D, resourceId) :
                          v.version = MaxVersion(D, resourceId)}
         IN  IF latest = {} THEN {FALSE}
             ELSE {timestamp >= SecsToInt(v.timestamp) : v \in latest}

\* The possible results of resourceNeedsUpdating: the query has no ORDER BY,
\* so q.first() is any of the rows that carry the maximum version.
ResourceNeedsUpdating(D, resourceId, timestamp) ==
    IF ~Prepares(D, "select_latest_timestamp", {"versioned_resources"})
    THEN {FALSE}
    ELSE LET latest == {v \in VersionsOf(D, resourceId) :
                          v.version = MaxVersion(D, resourceId)}
         IN  IF latest = {} THEN {FALSE}
             ELSE {timestamp > SecsToInt(v.timestamp) : v \in latest}

VersionRow(D, resourceId, version, timestamp, storage, resource) ==
    [resource_id |-> resourceId,
     storage_id |-> StorageId(D, storage.location),
     version |-> version,
     location |-> resource.filename,
     timestamp |-> timestamp,
     deleted |-> 0,
     checksum |-> resource.md5]

\* UPDATE resources SET name, filename, tooltip, thumbnail WHERE id = :id
UpdateResource(D, resourceId, resource) ==
    [D EXCEPT !.resources =
        {IF r.id = resourceId
         THEN [r EXCEPT !.name = resource.name, !.filename = resource.filename,
                        !.tooltip = resource.name, !.thumbnail = resource.name]
         ELSE r : r \in @}]

AddResourceVersion(D, resourceId, timestamp, storage, resource) ==
    IF ~Prepares(D, "insert_next_version", {"versioned_resources", "storages"})
    THEN Outcome(D, FALSE, <<>>)
    ELSE LET next == IF MaxVersion(D, resourceId) = NullId THEN NullId
                     ELSE MaxVersion(D, resourceId) + 1
             row == VersionRow(D, resourceId, next, timestamp, storage, resource)
             D1 == [D EXCEPT !.versioned_resources = @ (+) SetToBag({row})]
         IN  IF ~Accepts(D, "versioned_resources", row) THEN Outcome(D, FALSE, <<>>)
             ELSE IF ~Prepares(D1, "update_resource", {"resources"})
             THEN Outcome(D1, FALSE, <<>>)
             ELSE Outcome(UpdateResource(D1, resourceId, resource), TRUE, <<>>)

ResourceRow(D, resource, resourceType) ==
    [id |-> NextId(D.resources),
     resource_type_id |-> ResourceTypeId(D, resourceType),
     name |-> resource.name,
     filename |-> resource.filename,
     tooltip |-> resource.name,
     thumbnail |-> resource.name,
     status |-> 1]

\* the statement at the end of addResource: a row with version 1
InsertFirstVersion(D, resourceId, timestamp, storage, resource, c) ==
    IF \/ ~Prepares(D, "insert_first_version", {"versioned_resources", "storages"})
       \/ ~Accepts(D, "versioned_resources",
                   VersionRow(D, resourceId, 1, timestamp, storage, resource))
    THEN Outcome(D, FALSE, c)
    ELSE Outcome([D EXCEPT !.versioned_resources =
                     @ (+) SetToBag({VersionRow(D, resourceId, 1, timestamp,
                                                storage, resource)})],
                 TRUE, c)

\* addResource that returns when the resource it finds needs no new version
AddCheckedResourceReturning(D, storage, timestamp, resource, resourceType) ==
    LET resourceId == ResourceIdForResource(D, resource.filename, resourceType)
    IN  IF resourceId > NotFound
        THEN {IF needs
              THEN InsertFirstVersion(
                      AddResourceVersion(D, resourceId, timestamp, storage, resource).db,
                      resourceId, timestamp, storage, resource,
                      <<"resourceNeedsUpdating", "addResourceVersion">>)
              ELSE Outcome(D, TRUE, <<"resourceNeedsUpdating">>)
              : needs \in ResourceNeedsUpdating(D, resourceId, timestamp)}
        ELSE IF \/ ~Prepares(D, "insert_resource", {"resources", "resource_types"})
                \/ ~Accepts(D, "resources", ResourceRow(D, resource, resourceType))
             THEN {Outcome(D, FALSE, <<>>)}
             ELSE {InsertFirstVersion(
                      [D EXCEPT !.resources = @ \cup {ResourceRow(D, resource, resourceType)}],
                      resourceId, timestamp, storage, resource, <<"insertResource">>)}

\* addResource from "Check whether it already exists" on
AddCheckedResource(D, storage, timestamp, resource, resourceType) ==
    LET resourceId == ResourceIdForResource(D, resource.filename, resourceType)
    IN  IF resourceId > NotFound
        THEN {IF needs
              THEN InsertFirstVersion(
                      AddResourceVersion(D, resourceId, timestamp, storage, resource).db,
                      resourceId, timestamp, storage, resource,
                      <<"resourceNeedsUpdating", "addResourceVersion">>)
              ELSE InsertFirstVersion(D, resourceId, timestamp, storage, resource,
                                      <<"resourceNeedsUpdating">>)
              : needs \in ResourceNeedsUpdating(D, resourceId, timestamp)}
        ELSE IF \/ ~Prepares(D, "insert_resource", {"resources", "resource_types"})
                \/ ~Accepts(D, "resources", ResourceRow(D, resource, resourceType))
             THEN {Outcome(D, FALSE, <<>>)}
             ELSE {InsertFirstVersion(
                      [D EXCEPT !.resources = @ \cup {ResourceRow(D, resource, resourceType)}],
                      resourceId, timestamp, storage, resource, <<"insertResource">>)}

\* addResource without its test of s_valid
AddResourceUnguarded(D, valid, storage, timestamp, resource, resourceType) ==
    IF resource.null \/ ~resource.valid THEN {Outcome(D, FALSE, <<>>)}
    ELSE AddCheckedResource(D, storage, timestamp, resource, resourceType)

\* The possible outcomes of addResource.
AddResource(D, valid, storage, timestamp, resource, resourceType) ==
    IF ~valid THEN {Outcome(D, FALSE, <<>>)}
    ELSE IF resource.null \/ ~resource.valid THEN {Outcome(D, FALSE, <<>>)}
    ELSE AddCheckedResource(D, storage, timestamp, resource, resourceType)

\* The possible outcomes of the loop of addResources and of the folder branch
\* of synchronizeStorage over what the iterator yields.
RECURSIVE AddResourceLoop(_, _, _, _)
AddResourceLoop(D, valid, storage, items) ==
    IF items = <<>> THEN {Outcome(D, TRUE, <<>>)}
    ELSE LET item == Head(items)
             firsts == IF item.resource.null
                       THEN {Outcome(D, TRUE, <<>>)}
                       ELSE {Outcome(o.db, o.ret, <<"addResource">> \o o.calls) :
                               o \in AddResource(D, valid, storage, item.lastModified,
                                                 item.resource, item.type)}
         IN  UNION {{Outcome(rest.db, TRUE, f.calls \o rest.calls) :
                        rest \in AddResourceLoop(f.db, valid, storage, Tail(items))}
                    : f \in firsts}

\* addResources with a loop that ends at the first item that cannot be added
AddResourcesStopping(D, valid, storage, items) ==
    LET bad == {i \in 1..Len(items) : items[i].resource.null \/ ~items[i].resource.valid}
        stop == IF bad = {} THEN Len(items) ELSE CHOOSE i \in bad : \A j \in bad : i <= j
    IN  AddResourceLoop(D, valid, storage, SubSeq(items, 1, stop))

AddResources(D, valid, storage, items) == AddResourceLoop(D, valid, storage, items)

\* ---------------------------------------------------------- Tag Catalog
\* the filename tagResource looks up: location + "/" + resourceType + "/" + name
QualifiedName(location, resourceType, resourceName) ==
    location \o "/" \o resourceType \o "/" \o resourceName

\* select_tag.sql: the ids of the tags with this url and this resource type
SelectTag(D, url, resourceType) ==
    {t.id : t \in {x \in D.tags :
                     /\ x.url = url
                     /\ x.resource_type_id # NullId
                     /\ x.resource_type_id = ResourceTypeId(D, resourceType)}}

HasTag(D, url, resourceType) ==
    /\ Prepares(D, "select_tag", {"tags", "resource_types"})
    /\ SelectTag(D, url, resourceType) # {}

TagRow(D, resourceType, url) ==
    [id |-> NextId(D.tags), url |-> url, name |-> url, comment |-> url,
     resource_type_id |-> ResourceTypeId(D, resourceType), active |-> 1]

\* addTag that reports a tag it finds as a failure
AddTagRefusing(D, resourceType, url) ==
    IF HasTag(D, url, resourceType) THEN Outcome(D, FALSE, <<>>)
    ELSE IF ~Prepares(D, "insert_tag", {"tags", "resource_types"})
         THEN Outcome(D, FALSE, <<>>)
         ELSE IF ~Accepts(D, "tags", TagRow(D, resourceType, url))
              THEN Outcome(D, TRUE, <<>>)
              ELSE Outcome([D EXCEPT !.tags = @ \cup {TagRow(D, resourceType, url)}],
                           TRUE, <<>>)

AddTag(D, resourceType, url) ==
    IF HasTag(D, url, resourceType) THEN Outcome(D, TRUE, <<>>)
    ELSE IF ~Prepares(D, "insert_tag", {"tags", "resource_types"})
         THEN Outcome(D, FALSE, <<>>)
         ELSE IF ~Accepts(D, "tags", TagRow(D, resourceType, url))
              THEN Outcome(D, TRUE, <<>>)
              ELSE Outcome([D EXCEPT !.tags = @ \cup {TagRow(D, resourceType, url)}],
                           TRUE, <<>>)

TagResource(D, storage, resourceName, url, resourceType) ==
    LET resourceId == ResourceIdForResource(
                         D, QualifiedName(storage.location, resourceType, resourceName),
                         resourceType)
        found == SelectTag(D, url, resourceType)
    IN  IF resourceId < 0 THEN Outcome(D, FALSE, <<>>)
        ELSE IF ~Prepares(D, "select_tag", {"tags", "resource_types"})
             THEN Outcome(D, FALSE, <<>>)
        ELSE IF found = {} THEN Outcome(D, FALSE, <<>>)
        ELSE IF \/ ~Prepares(D, "insert_resource_tag", {"resource_tags"})
                \/ ~Accepts(D, "resource_tags", [resource_id |-> resourceId])
             THEN Outcome(D, FALSE, <<>>)
        ELSE Outcome([D EXCEPT !.resource_tags = @ (+) SetToBag(
                         {[resource_id |-> resourceId,
                           tag_id |-> CHOOSE i \in found : \A j \in found : i <= j]})],
                     TRUE, <<>>)

RECURSIVE TagResourceLoop(_, _, _, _, _)
TagResourceLoop(D, storage, names, url, resourceType) ==
    IF names = <<>> THEN Outcome(D, TRUE, <<>>)
    ELSE LET f == TagResource(D, storage, Head(names), url, resourceType)
             rest == TagResourceLoop(f.db, storage, Tail(names), url, resourceType)
         IN  Outcome(rest.db, TRUE, <<"tagResource">> \o rest.calls)

RECURSIVE AddTags(_, _, _, _)
AddTags(D, storage, resourceType, items) ==
    IF items = <<>> THEN Outcome(D, TRUE, <<>>)
    ELSE LET item == Head(items)
             a == AddTag(D, resourceType, item.url)
             t == TagResourceLoop(a.db, storage, item.defaultResources, item.url,
                                  resourceType)
             rest == AddTags(t.db, storage, resourceType, Tail(items))
         IN  Outcome(rest.db, TRUE, <<"addTag">> \o t.calls \o rest.calls)

\* ------------------------------------------------------ Storage Registry
StorageRow(D, storage, preinstalled) ==
    [id |-> NextId(D.storages),
     origin_type_id |-> storage.type,
     location |-> storage.location,
     timestamp |-> storage.timestamp,      \* toMSecsSinceEpoch(), 64 bits
     pre_installed |-> IF preinstalled THEN 1 ELSE 0,
     active |-> 1]

\* addStorage without its lookup of the location
AddStorageUnchecked(D, valid, storage, preinstalled) ==
    IF ~valid THEN Outcome(D, FALSE, <<>>)
    ELSE IF ~Prepares(D, "select_storage", {"storages"}) THEN Outcome(D, FALSE, <<>>)
    ELSE IF \/ ~Prepares(D, "insert_storage", {"storages"})
            \/ ~Accepts(D, "storages", StorageRow(D, storage, preinstalled))
         THEN Outcome(D, FALSE, <<>>)
    ELSE Outcome([D EXCEPT !.storages = @ \cup {StorageRow(D, storage, preinstalled)}],
                 TRUE, <<>>)

AddStorage(D, valid, storage, preinstalled) ==
    IF ~valid THEN Outcome(D, FALSE, <<>>)
    ELSE IF ~Prepares(D, "select_storage", {"storages"}) THEN Outcome(D, FALSE, <<>>)
    ELSE IF \E row \in D.storages : row.location = storage.location
         THEN Outcome(D, TRUE, <<>>)
    ELSE IF \/ ~Prepares(D, "insert_storage", {"storages"})
            \/ ~Accepts(D, "storages", StorageRow(D, storage, preinstalled))
         THEN Outcome(D, FALSE, <<>>)
    ELSE Outcome([D EXCEPT !.storages = @ \cup {StorageRow(D, storage, preinstalled)}],
                 TRUE, <<>>)

\* what the three DELETE statements say, were they SQL
DeleteResourcesOf(D, location) ==
    [D EXCEPT !.resources =
        {r \in @ : ~\E v \in BagToSet(D.versioned_resources) :
                        /\ v.resource_id = r.id
                        /\ StorageId(D, location) # NullId
                        /\ v.storage_id = StorageId(D, location)}]

RowsNotOf(B, sid) ==
    [v \in {x \in BagToSet(B) : sid = NullId \/ x.storage_id # sid} |-> CopiesIn(v, B)]

DeleteVersionsOf(D, location) ==
    [D EXCEPT !.versioned_resources = RowsNotOf(@, StorageId(D, location))]

DeleteStorageRow(D, location) ==
    [D EXCEPT !.storages = {row \in @ : row.location # location}]

\* the statements of deleteStorage, in the order in which the function runs them
DeleteStatements == <<"delete_resources", "delete_versioned_resources", "delete_storages">>

\* the k-th statement of deleteStorage on its own: ret says whether it ran
DeleteStatement(D, storage, k) ==
    CASE k = 1 ->
            IF Prepares(D, DeleteStatements[1],
                        {"resources", "versioned_resources", "storages"})
            THEN Outcome(DeleteResourcesOf(D, storage.location), TRUE, <<>>)
            ELSE Outcome(D, FALSE, <<>>)
      [] k = 2 ->
            IF Prepares(D, DeleteStatements[2], {"versioned_resources", "storages"})
            THEN Outcome(DeleteVersionsOf(D, storage.location), TRUE, <<>>)
            ELSE Outcome(D, FALSE, <<>>)
      [] OTHER ->
            IF Prepares(D, DeleteStatements[3], {"storages"})
            THEN Outcome(DeleteStorageRow(D, storage.location), TRUE, <<>>)
            ELSE Outcome(D, FALSE, <<>>)

\* deleteStorage, were its three statements SQL
DeleteStorageParsed(D, storage) ==
    Outcome(DeleteStorageRow(DeleteVersionsOf(DeleteResourcesOf(D, storage.location),
                                              storage.location),
                             storage.location),
            TRUE, <<>>)

DeleteStorage(D, storage) ==
    IF ~Prepares(D, "delete_resources", {"resources", "versioned_resources", "storages"})
    THEN Outcome(D, FALSE, <<>>)
    ELSE LET D1 == DeleteResourcesOf(D, storage.location)
         IN  IF ~Prepares(D1, "delete_versioned_resources",
                          {"versioned_resources", "storages"})
             THEN Outcome(D1, FALSE, <<>>)
             ELSE LET D2 == DeleteVersionsOf(D1, storage.location)
                  IN  IF ~Prepares(D2, "delete_storages", {"storages"})
                      THEN Outcome(D2, FALSE, <<>>)
                      ELSE Outcome(DeleteStorageRow(D2, storage.location), TRUE, <<>>)

\* -------------------------------------------------- Synchronization Engine
\* the branch of synchronizeStorage for storages that are not folders
SynchronizeContainer(D, valid, storage) ==
    LET found == /\ Prepares(D, "select_storage_timestamp", {"storages"})
                 /\ \E row \in D.storages : row.location = storage.location
        row == CHOOSE r \in D.storages : r.location = storage.location
        \* q.value(n) of a query that is not on a row is an invalid QVariant:
        \* toInt() is 0 and toBool() is false
        persisted == IF found THEN MSecsToInt(row.timestamp) ELSE 0
        preinstalled == IF found THEN row.pre_installed # 0 ELSE FALSE
        a == IF found THEN Outcome(D, TRUE, <<>>)
             ELSE LET o == AddStorage(D, valid, storage, FALSE)
                  IN  Outcome(o.db, o.ret, <<"addStorage">>)
    IN  IF storage.timestamp.secs > persisted
        THEN LET d == DeleteStorage(a.db, storage)
                 r == AddStorage(d.db, valid, storage, preinstalled)
             IN  Outcome(r.db, TRUE, a.calls \o <<"deleteStorage", "addStorage">>)
        ELSE Outcome(a.db, TRUE, a.calls)

\* The possible outcomes of synchronizeStorage.  items[i] is what the storage's
\* iterator yields for resourceTypes[i].
RECURSIVE SynchronizeFolder(_, _, _, _)
SynchronizeFolder(D, valid, storage, items) ==
    IF items = <<>> THEN {Outcome(D, TRUE, <<>>)}
    ELSE UNION {{Outcome(rest.db, TRUE, f.calls \o rest.calls) :
                    rest \in SynchronizeFolder(f.db, valid, storage, Tail(items))}
                : f \in AddResourceLoop(D, valid, storage, Head(items))}

SynchronizeStorage(D, valid, storage, items) ==
    IF ~valid THEN {Outcome(D, FALSE, <<>>)}
    ELSE IF storage.type # "FOLDER" THEN {SynchronizeContainer(D, valid, storage)}
    ELSE SynchronizeFolder(D, valid, storage, items)

\* --------------------------------------------------------- Schema Manager
\* the places where initDb can fail for a reason outside the program
Failures(S) ==
    {f \in {[step |-> "none", index |-> 0], [step |-> "open", index |-> 0],
            [step |-> "index", index |-> 1],
            [step |-> "fill_version_information", index |-> 1]}
           \cup [step : {"create"}, index : 1..Len(tables)]
           \cup [step : {"fill_origin_types"}, index : 1..Len(storageTypes)]
           \cup [step : {"fill_resource_types"}, index : 1..Len(resourceTypes)] :
        /\ f.step \in S.failures
        /\ f.index <= MaxFailureIndex}

\* QSqlQuery::size(): -1 when the driver cannot report the size of a query
SizeOfQuery(rows) == IF dbDriver = "QSQLITE" THEN QuerySize ELSE Len(rows)

SchemaIsOutDated(D) ==
    /\ "version_information" \in D.tables
    /\ SizeOfQuery(D.version_information) > 0
    /\ D.version_information[1] # databaseVersion

\* create_<table>.sql for the first n tables (CREATE TABLE IF NOT EXISTS)
CreateTables(D, n) == [D EXCEPT !.tables = @ \cup {tables[i] : i \in 1..n}]

\* "DELETE * FROM <table>;" and then one INSERT per name, the first n of them
FillLookup(old, statement, rows, names, n) ==
    (IF Prepares(old, statement, {}) THEN <<>> ELSE rows) \o SubSeq(names, 1, n)

\* what initDb leaves: the database, the connection, whether it returns an
\* error, and the way it took through the function
InitResult(D, c, e, p) == [db |-> D, connected |-> c, err |-> e, path |-> p]

\* initDb without its "all tables are present and up to date" return
InitDbUnconditional(D, isConnected, failure) ==
    IF isConnected THEN InitResult(D, TRUE, FALSE, "connected")
    ELSE IF failure.step = "open" THEN InitResult([D EXCEPT !.open = FALSE], TRUE, TRUE, "open")
    ELSE
      LET D0 == [D EXCEPT !.open = TRUE]
          allTablesPresent == Range(tables) \subseteq D0.tables
          fails(step) == failure.step = step
          upTo(step, n) == IF fails(step) THEN failure.index - 1 ELSE n
          D1 == CreateTables(D0, upTo("create", Len(tables)))
          D2 == [D1 EXCEPT !.origin_types =
                    IF "origin_types" \in D0.tables
                    THEN FillLookup(D0, "clear_origin_types", @, storageTypes,
                                    upTo("fill_origin_types", Len(storageTypes)))
                    ELSE SubSeq(storageTypes, 1,
                                upTo("fill_origin_types", Len(storageTypes)))]
          D3 == [D2 EXCEPT !.resource_types =
                    IF "resource_types" \in D0.tables
                    THEN FillLookup(D0, "clear_resource_types", @, resourceTypes,
                                    upTo("fill_resource_types", Len(resourceTypes)))
                    ELSE SubSeq(resourceTypes, 1,
                                upTo("fill_resource_types", Len(resourceTypes)))]
          D4 == [D3 EXCEPT !.version_information = Append(@, databaseVersion)]
      IN  IF fails("create") THEN InitResult(D1, TRUE, TRUE, "create")
          ELSE IF fails("index") THEN InitResult(D1, TRUE, TRUE, "create")
          ELSE IF fails("fill_origin_types") THEN InitResult(D2, TRUE, TRUE, "create")
          ELSE IF fails("fill_resource_types") THEN InitResult(D3, TRUE, TRUE, "create")
          ELSE IF fails("fill_version_information") THEN InitResult(D3, TRUE, TRUE, "create")
          ELSE InitResult(D4, TRUE, FALSE, "create")

InitDb(D, isConnected, failure) ==
    IF isConnected THEN InitResult(D, TRUE, FALSE, "connected")
    ELSE IF failure.step = "open" THEN InitResult([D EXCEPT !.open = FALSE], TRUE, TRUE, "open")
    ELSE
      LET D0 == [D EXCEPT !.open = TRUE]
          allTablesPresent == Range(tables) \subseteq D0.tables
          fails(step) == failure.step = step
          upTo(step, n) == IF fails(step) THEN failure.index - 1 ELSE n
          D1 == CreateTables(D0, upTo("create", Len(tables)))
          D2 == [D1 EXCEPT !.origin_types =
                    IF "origin_types" \in D0.tables
                    THEN FillLookup(D0, "clear_origin_types", @, storageTypes,
                                    upTo("fill_origin_types", Len(storageTypes)))
                    ELSE SubSeq(storageTypes, 1,
                                upTo("fill_origin_types", Len(storageTypes)))]
          D3 == [D2 EXCEPT !.resource_types =
                    IF "resource_types" \in D0.tables
                    THEN FillLookup(D0, "clear_resource_types", @, resourceTypes,
                                    upTo("fill_resource_types", Len(resourceTypes)))
                    ELSE SubSeq(resourceTypes, 1,
                                upTo("fill_resource_types", Len(resourceTypes)))]
          D4 == [D3 EXCEPT !.version_information = Append(@, databaseVersion)]
      IN  IF allTablesPresent /\ ~SchemaIsOutDated(D0) THEN InitResult(D0, TRUE, FALSE, "current")
          ELSE IF fails("create") THEN InitResult(D1, TRUE, TRUE, "create")
          ELSE IF fails("index") THEN InitResult(D1, TRUE, TRUE, "create")
          ELSE IF fails("fill_origin_types") THEN InitResult(D2, TRUE, TRUE, "create")
          ELSE IF fails("fill_resource_types") THEN InitResult(D3, TRUE, TRUE, "create")
          ELSE IF fails("fill_version_information") THEN InitResult(D3, TRUE, TRUE, "create")
          ELSE InitResult(D4, TRUE, FALSE, "create")

\* ---------------------------------------------------------------- actions
Init ==
    /\ s_valid = FALSE
    /\ connected = FALSE
    /\ dbOpen = FALSE
    /\ dbTables = {}
    /\ version_information = <<>>
    /\ origin_types = <<>>
    /\ resource_types = <<>>
    /\ storages = {}
    /\ resources = {}
    /\ versioned_resources = EmptyBag
    /\ tags = {}
    /\ resource_tags = EmptyBag
    /\ last = [op |-> "start", valid |-> FALSE, ret |-> FALSE, calls |-> <<>>]

\* the common part of every call of a cache operation
Call(S, o, l) ==
    /\ WithinBounds(S, o.db)
    /\ SetDb(o.db)
    /\ last' = [l EXCEPT !.valid = s_valid, !.ret = o.ret, !.calls = o.calls]
    /\ UNCHANGED <<s_valid, connected>>

Blank(op) == [op |-> op, valid |-> FALSE, ret |-> FALSE, calls |-> <<>>]

initialize(S) ==
    \E failure \in Failures(S) :
        LET i == InitDb(Db, connected, failure)
        IN  /\ SetDb(i.db)
            /\ connected' = i.connected
            /\ s_valid' = ~i.err
            /\ last' = [Blank("initialize") EXCEPT !.valid = s_valid, !.ret = ~i.err,
                                                   !.calls = <<i.path>>]
                       @@ [failure |-> failure]

\* the process ends and a new one starts on the same database file
restart ==
    /\ s_valid' = FALSE
    /\ connected' = FALSE
    /\ dbOpen' = FALSE
    /\ last' = Blank("restart")
    /\ UNCHANGED tableVars

\* the schema version of the file is edited from outside the program
alterSchemaVersion ==
    /\ version_information # <<>>
    /\ version_information[1] = databaseVersion
    /\ version_information' = [version_information EXCEPT ![1] = "0.0.0"]
    /\ last' = Blank("alterSchemaVersion")
    /\ UNCHANGED <<s_valid, connected, dbOpen, dbTables, origin_types, resource_types,
                   storages, resources, versioned_resources, tags, resource_tags>>

addResource(S) ==
    \E storage \in S.storages, timestamp \in S.seconds, resource \in S.resources,
       resourceType \in S.types :
        \E o \in AddResource(Db, s_valid, storage, timestamp, resource, resourceType) :
            Call(S, o, Blank("addResource")
                       @@ [location |-> storage.location, timestamp |-> timestamp,
                           resource |-> resource, resourceType |-> resourceType])

addResources(S) ==
    \E storage \in S.storages, resourceType \in S.types :
        \E items \in S.batches[resourceType] :
            \E o \in AddResources(Db, s_valid, storage, items) :
                Call(S, o, Blank("addResources")
                           @@ [location |-> storage.location, items |-> items])

addTag(S) ==
    \E resourceType \in S.tagTypes, url \in S.tagUrls :
        \E o \in {AddTag(Db, resourceType, url)} :
            Call(S, o, Blank("addTag") @@ [resourceType |-> resourceType, url |-> url])

tagResource(S) ==
    \E storage \in S.storages, resourceName \in {"a.gbr"}, url \in TagUrls,
       resourceType \in S.types :
        \E o \in {TagResource(Db, storage, resourceName, url, resourceType)} :
            Call(S, o, Blank("tagResource")
                       @@ [location |-> storage.location, resourceName |-> resourceName,
                           url |-> url, resourceType |-> resourceType])

addTags(S) ==
    \E storage \in S.storages, resourceType \in S.types :
        \E items \in S.tagBatches :
            \E o \in {AddTags(Db, storage, resourceType, items)} :
                Call(S, o, Blank("addTags")
                           @@ [location |-> storage.location, items |-> items])

addStorage(S) ==
    \E storage \in S.storages, preinstalled \in BOOLEAN :
        \E o \in {AddStorage(Db, s_valid, storage, preinstalled)} :
            Call(S, o, Blank("addStorage")
                       @@ [storage |-> storage, preinstalled |-> preinstalled])

deleteStorage(S) ==
    \E storage \in S.storages :
        \E o \in {DeleteStorage(Db, storage)} :
            Call(S, o, Blank("deleteStorage") @@ [location |-> storage.location])

\* deleteStorage is between two of its statements
InDeleteStorage == last.op = "deleteStorageStatement" /\ ~last.returned

\* deleteStorage, one statement at a time: the first statement of a new call,
\* or the next statement of the call that is under way
deleteStorageStatement(S) ==
    \E storage \in S.storages :
        LET k == IF InDeleteStorage THEN last.statement + 1 ELSE 1
        IN  /\ InDeleteStorage => storage.location = last.location
            /\ \E o \in {DeleteStatement(Db, storage, k)} :
                  Call(S, o, Blank("deleteStorageStatement")
                             @@ [location |-> storage.location, statement |-> k,
                                 returned |-> ~o.ret \/ k = Len(DeleteStatements)])

\* the process is killed inside addResource, after the INSERT of the Resource
\* row and before "Then add a new version"
crashInAddResource(S) ==
    \E storage \in S.storages, timestamp \in S.seconds, resource \in S.resources,
       resourceType \in S.types :
        /\ s_valid
        /\ ~resource.null
        /\ resource.valid
        /\ ResourceIdForResource(Db, resource.filename, resourceType) = NotFound
        /\ Prepares(Db, "insert_resource", {"resources", "resource_types"})
        /\ Accepts(Db, "resources", ResourceRow(Db, resource, resourceType))
        /\ Cardinality(resources) < S.resourceRows
        /\ resources' = resources \cup {ResourceRow(Db, resource, resourceType)}
        /\ s_valid' = FALSE
        /\ connected' = FALSE
        /\ dbOpen' = FALSE
        /\ last' = Blank("crashInAddResource")
                    @@ [location |-> storage.location, timestamp |-> timestamp,
                        resource |-> resource, resourceType |-> resourceType]
        /\ UNCHANGED <<dbTables, version_information, origin_types, resource_types,
                       storages, versioned_resources, tags, resource_tags>>

synchronizeStorage(S) ==
    \E storage \in S.storages :
        \E items \in IF storage.type = "FOLDER" THEN S.contents ELSE {<<>>} :
            \E o \in SynchronizeStorage(Db, s_valid, storage, items) :
                Call(S, o, Blank("synchronizeStorage")
                           @@ [storage |-> storage, items |-> items])

\* The resource index: a database that initializes without failure, one folder.
NextIndex ==
    \/ initialize(IndexScope)
    \/ addStorage(IndexScope)
    \/ addResource(IndexScope)
    \/ addResources(IndexScope)
    \/ synchronizeStorage(IndexScope)

SpecIndex == Init /\ [][NextIndex]_vars

\* The version history of one resource whose content changes.
NextVersion ==
    \/ initialize(VersionScope)
    \/ addStorage(VersionScope)
    \/ addResource(VersionScope)
    \/ addResources(VersionScope)
    \/ synchronizeStorage(VersionScope)

SpecVersion == Init /\ [][NextVersion]_vars

\* The synchronization of a folder that holds two resources.
NextSync ==
    \/ initialize(SyncScope)
    \/ addStorage(SyncScope)
    \/ synchronizeStorage(SyncScope)

SpecSync == Init /\ [][NextSync]_vars

\* The storage registry: a folder and a bundle that changes on disk.
NextStorage ==
    \/ initialize(StorageScope)
    \/ addStorage(StorageScope)
    \/ deleteStorage(StorageScope)
    \/ synchronizeStorage(StorageScope)
    \/ addResource(StorageScope)

SpecStorage == Init /\ [][NextStorage]_vars

\* A resource with versions in two storages, one of which is deleted.
NextShared ==
    \/ initialize(SharedScope)
    \/ addStorage(SharedScope)
    \/ addResource(SharedScope)
    \/ deleteStorage(SharedScope)

SpecShared == Init /\ [][NextShared]_vars

\* deleteStorage seen statement by statement; no other call runs while it is
\* under way.
NextDelete ==
    \/ ~InDeleteStorage /\ initialize(SharedScope)
    \/ ~InDeleteStorage /\ addStorage(SharedScope)
    \/ ~InDeleteStorage /\ addResource(SharedScope)
    \/ deleteStorageStatement(SharedScope)

SpecDelete == Init /\ [][NextDelete]_vars

\* The index of a folder kept by processes that can be killed in addResource.
NextCrash ==
    \/ initialize(CrashScope)
    \/ crashInAddResource(CrashScope)
    \/ addResource(CrashScope)
    \/ synchronizeStorage(CrashScope)

SpecCrash == Init /\ [][NextCrash]_vars

\* The tag catalog and the batches over what a storage exposes.
NextCatalog ==
    \/ initialize(CatalogScope)
    \/ addResources(CatalogScope)
    \/ addTag(CatalogScope)
    \/ tagResource(CatalogScope)
    \/ addTags(CatalogScope)

SpecCatalog == Init /\ [][NextCatalog]_vars

\* The schema of a database file that is opened again and again, and whose
\* version record somebody edits between two runs.
NextSchema ==
    \/ initialize(LifecycleScope)
    \/ restart
    \/ alterSchemaVersion
    \/ addStorage(LifecycleScope)

SpecSchema == Init /\ [][NextSchema]_vars

\* The whole life of the database file: initializations that can fail,
\* restarts of the process, and every operation.
Next ==
    \/ initialize(LifecycleScope)
    \/ restart
    \/ addResource(LifecycleScope)
    \/ addResources(LifecycleScope)
    \/ addTag(LifecycleScope)
    \/ tagResource(LifecycleScope)
    \/ addTags(LifecycleScope)
    \/ addStorage(LifecycleScope)
    \/ deleteStorage(LifecycleScope)
    \/ synchronizeStorage(LifecycleScope)

Spec == Init /\ [][Next]_vars

\* ======================================================================
\* Properties
\* ======================================================================
Operations ==
    {"addResource", "addResources", "addTag", "addTags", "tagResource",
     "addStorage", "deleteStorage", "synchronizeStorage"}

\* the rows of a bag of version rows that belong to one resource_id
RowsOfResource(B, resourceId) ==
    [v \in {x \in BagToSet(B) : x.resource_id = resourceId} |-> CopiesIn(v, B)]
\* the rows of a bag of version rows recorded for one file
RowsOfFile(B, filename) ==
    [v \in {x \in BagToSet(B) : x.location = filename} |-> CopiesIn(v, B)]
\* the rows of a bag of version rows that belong to one storage
RowsOfStorage(B, sid) ==
    [v \in {x \in BagToSet(B) : x.storage_id = sid} |-> CopiesIn(v, B)]

\* no two rows of the bag carry the same version number
DistinctVersions(B) ==
    \A v \in BagToSet(B) :
        /\ B[v] = 1
        /\ \A w \in BagToSet(B) : w # v => w.version # v.version

TimeBefore(t, u) == t.secs < u.secs \/ (t.secs = u.secs /\ t.ms < u.ms)

\* C1: on a valid cache, for every resource_id that has rows in
\* versioned_resources the version numbers of those rows are exactly 1..n:
\* they start at 1, have no gap and no number occurs twice.
C1_VersionsAreContiguous ==
    \A id \in {v.resource_id : v \in BagToSet(versioned_resources)} :
        LET rows == RowsOfResource(versioned_resources, id)
        IN  /\ DistinctVersions(rows)
            /\ {v.version : v \in BagToSet(rows)} = 1..BagCardinality(rows)

\* C2: a second addResource for the same (filename, resourceType) whose
\* timestamp is not newer than the first one's is a no-op success: it inserts
\* no row into resources or versioned_resources, so the one version row stays
\* the only one.
C2_SecondAddIsNoOp ==
    [][(/\ last'.op = "addResource"
        /\ s_valid
        /\ ~last'.resource.null
        /\ last'.resource.valid
        /\ ResourceIdForResource(Db, last'.resource.filename, last'.resourceType) > NotFound
        /\ LET first == RowsOfFile(versioned_resources, last'.resource.filename)
           IN  /\ BagCardinality(first) = 1
               /\ \A v \in BagToSet(first) : last'.timestamp <= v.timestamp)
       => (/\ last'.ret
           /\ resources' = resources
           /\ versioned_resources' = versioned_resources)]_vars

\* C3: after addResource with checksum C1, an addResource for the same
\* (filename, resourceType) with a strictly newer timestamp and checksum C2
\* leaves the resource with at least 2 version rows with ascending version
\* numbers, and the row with MAX(version) carries checksum C2.
C3_NewerAddAppendsVersion ==
    [][(/\ last'.op = "addResource"
        /\ s_valid
        /\ ~last'.resource.null
        /\ last'.resource.valid
        /\ ResourceIdForResource(Db, last'.resource.filename, last'.resourceType) > NotFound
        /\ LET first == RowsOfFile(versioned_resources, last'.resource.filename)
           IN  /\ BagCardinality(first) >= 1
               /\ \A v \in BagToSet(first) : last'.timestamp > v.timestamp)
       => LET id == ResourceIdForResource(Db', last'.resource.filename,
                                          last'.resourceType)
              rows == RowsOfResource(versioned_resources', id)
          IN  /\ BagCardinality(rows) >= 2
              /\ DistinctVersions(rows)
              /\ \A v \in BagToSet(rows) :
                    v.version = MaxVersion(Db', id) => v.checksum = last'.resource.md5]_vars

\* C4: addResource returns failure and leaves every table unchanged when the
\* validity flag is false, or the resource is null, or the resource fails its
\* own validity check.
C4_AddResourceRejects ==
    [][(/\ last'.op = "addResource"
        /\ (~s_valid \/ last'.resource.null \/ ~last'.resource.valid))
       => (~last'.ret /\ UNCHANGED tableVars)]_vars

\* C4 happens: addResource was called with a valid resource while the flag was
\* false on an open database that has all its tables, and it failed.
C4_Witness ==
    /\ last.op = "addResource"
    /\ ~last.valid
    /\ ~last.ret
    /\ dbOpen
    /\ Range(tables) \subseteq dbTables
    /\ ~last.resource.null
    /\ last.resource.valid

\* C5: while the validity flag is false, no cache operation inserts, updates
\* or deletes a row of any table.
C5_InvalidCacheRefuses ==
    [][(~s_valid /\ last'.op \in Operations) => UNCHANGED tableVars]_vars

\* C6: deleteStorage on a registered storage removes the resources and the
\* version rows of that storage and its storage row, returns success, and
\* leaves the rows of the other storages as they were.
C6_DeleteStorageRemovesItsRows ==
    [][(/\ last'.op = "deleteStorage"
        /\ StorageId(Db, last'.location) # NullId)
       => LET sid == StorageId(Db, last'.location)
              mine == BagToSet(RowsOfStorage(versioned_resources, sid))
              others == BagToSet(versioned_resources) \ mine
              gone == {r \in resources :
                          /\ \E v \in mine : v.resource_id = r.id
                          /\ ~\E v \in others : v.resource_id = r.id}
          IN  /\ last'.ret
              /\ storages' = {row \in storages : row.location # last'.location}
              /\ versioned_resources' = RowsNotOf(versioned_resources, sid)
              /\ resources' = resources \ gone]_vars

\* C7: synchronizeStorage on a storage that is not a folder and whose
\* persisted timestamp is older than its current one ends with exactly one
\* storage row for the location, with the preinstalled flag it had, and with
\* none of the version rows the storage had before the call.
C7_ChangedContainerIsRecreated ==
    [][(/\ last'.op = "synchronizeStorage"
        /\ s_valid
        /\ last'.storage.type # "FOLDER"
        /\ \E row \in storages :
              /\ row.location = last'.storage.location
              /\ TimeBefore(row.timestamp, last'.storage.timestamp))
       => LET old == CHOOSE row \in storages : row.location = last'.storage.location
              leftover == BagToSet(RowsOfStorage(versioned_resources, old.id))
          IN  /\ Cardinality({row \in storages' :
                                 row.location = last'.storage.location}) = 1
              /\ \A row \in storages' :
                    row.location = last'.storage.location
                        => row.pre_installed = old.pre_installed
              /\ \A v \in leftover : ~BagIn(v, versioned_resources')]_vars

\* C8: synchronizeStorage on a storage that is not a folder and whose
\* persisted timestamp is equal to or newer than its current one takes no
\* action: no table changes and neither deleteStorage nor addStorage is called.
C8_UnchangedContainerIsLeftAlone ==
    [][(/\ last'.op = "synchronizeStorage"
        /\ s_valid
        /\ last'.storage.type # "FOLDER"
        /\ \E row \in storages :
              /\ row.location = last'.storage.location
              /\ ~TimeBefore(row.timestamp, last'.storage.timestamp))
       => (/\ UNCHANGED tableVars
           /\ last'.calls = <<>>)]_vars

\* C9: synchronizeStorage on a storage that is not a folder and has no
\* persisted row only adds one storage row for it, not preinstalled and
\* active; deleteStorage is not called in that call.
C9_NewContainerIsOnlyAdded ==
    [][(/\ last'.op = "synchronizeStorage"
        /\ s_valid
        /\ last'.storage.type # "FOLDER"
        /\ StorageId(Db, last'.storage.location) = NullId)
       => (/\ storages' = storages \cup {StorageRow(Db, last'.storage, FALSE)}
           /\ UNCHANGED <<dbTables, version_information, origin_types, resource_types,
                          resources, versioned_resources, tags, resource_tags>>
           /\ "deleteStorage" \notin Range(last'.calls))]_vars

\* the folder pass sees this item as an indexed resource whose on-disk
\* timestamp is newer (or is not newer) than that of its latest version row
IndexedItem(item) ==
    LET id == ResourceIdForResource(Db, item.resource.filename, item.type)
    IN  id > NotFound /\ VersionsOf(Db, id) # {}
LatestRows(item) ==
    LET id == ResourceIdForResource(Db, item.resource.filename, item.type)
    IN  {v \in VersionsOf(Db, id) : v.version = MaxVersion(Db, id)}
ItemIsNewer(item) == \A v \in LatestRows(item) : item.lastModified > v.timestamp
ItemIsNotNewer(item) == \A v \in LatestRows(item) : item.lastModified <= v.timestamp

\* C10: synchronizeStorage on a folder that exposes two indexed resources, one
\* not newer on disk than its latest version row and one newer, adds one
\* version row, for the newer one; the version rows of the other resource and
\* the storages table stay as they were.
C10_FolderPassVersionsOnlyNewer ==
    [][(/\ last'.op = "synchronizeStorage"
        /\ s_valid
        /\ last'.storage.type = "FOLDER"
        /\ Len(last'.items[1]) = 2
        /\ \E i, j \in 1..2 :
              /\ i # j
              /\ IndexedItem(last'.items[1][i]) /\ ItemIsNotNewer(last'.items[1][i])
              /\ IndexedItem(last'.items[1][j]) /\ ItemIsNewer(last'.items[1][j]))
       => \A i, j \in 1..2 :
             (/\ i # j
              /\ ItemIsNotNewer(last'.items[1][i])
              /\ ItemIsNewer(last'.items[1][j]))
             => LET same == ResourceIdForResource(Db, last'.items[1][i].resource.filename,
                                                  last'.items[1][i].type)
                    newer == ResourceIdForResource(Db, last'.items[1][j].resource.filename,
                                                   last'.items[1][j].type)
                IN  /\ RowsOfResource(versioned_resources', same)
                         = RowsOfResource(versioned_resources, same)
                    /\ BagCardinality(RowsOfResource(versioned_resources', newer))
                         = BagCardinality(RowsOfResource(versioned_resources, newer)) + 1
                    /\ BagCardinality(versioned_resources')
                         = BagCardinality(versioned_resources) + 1
                    /\ storages' = storages]_vars

\* the rows of storages kept for one location
StorageRowsAt(rows, location) == {row \in rows : row.location = location}

\* C11: the storages table holds at most one row for a location; on a valid
\* cache addStorage for a registered location returns success and changes
\* nothing (timestamp, preinstalled and active flags of the row stay), and
\* addStorage for a location that is not registered inserts one row with the
\* given preinstalled flag and active = true.
C11_AddStorageIsIdempotent ==
    [][/\ \A row \in storages' : Cardinality(StorageRowsAt(storages', row.location)) = 1
       /\ (last'.op = "addStorage" /\ s_valid)
            => IF StorageRowsAt(storages, last'.storage.location) # {}
               THEN last'.ret /\ UNCHANGED tableVars
               ELSE /\ last'.ret
                    /\ storages \subseteq storages'
                    /\ Cardinality(storages') = Cardinality(storages) + 1
                    /\ \A row \in storages' \ storages :
                          /\ row.location = last'.storage.location
                          /\ row.timestamp = last'.storage.timestamp
                          /\ row.pre_installed = (IF last'.preinstalled THEN 1 ELSE 0)
                          /\ row.active = 1
                    /\ UNCHANGED <<dbTables, version_information, origin_types,
                                   resource_types, resources, versioned_resources,
                                   tags, resource_tags>>]_vars

\* C11 happens: a successful addStorage on a valid cache for a location whose
\* row carries the other preinstalled flag, so the row is one an earlier call
\* wrote and this call left alone.
C11_Witness ==
    /\ last.op = "addStorage"
    /\ last.valid
    /\ last.ret
    /\ \E row \in storages :
          /\ row.location = last.storage.location
          /\ row.pre_installed # (IF last.preinstalled THEN 1 ELSE 0)

\* the tag rows kept for a url and a resource type
TagRowsFor(D, url, resourceType) ==
    {t \in D.tags : /\ t.url = url
                    /\ t.resource_type_id = ResourceTypeId(D, resourceType)}

C13_SecondInitializeChangesNothing ==
    [][(/\ last'.op = "initialize"
        /\ Range(tables) \subseteq dbTables
        /\ version_information # <<>>
        /\ (connected \/ last'.failure.step # "open"))
       => (/\ last'.ret
           /\ s_valid'
           /\ UNCHANGED tableVars)]_vars

\* C13 happens: a new process initialized on the file of an earlier one and
\* found all tables present and up to date.
C13_Witness ==
    /\ last.op = "initialize"
    /\ last.ret
    /\ last.calls = <<"current">>
    /\ version_information # <<>>

\* C14: initialize of a process that opens a file whose version record does
\* not carry the expected schema version does not go the way of a database
\* with all tables present and up to date.
C14_OutdatedSchemaIsDetected ==
    [][(/\ last'.op = "initialize"
        /\ ~connected
        /\ last'.failure.step # "open"
        /\ "version_information" \in dbTables
        /\ version_information # <<>>
        /\ version_information[1] # databaseVersion)
       => last'.calls # <<"current">>]_vars

\* how often x occurs in a sequence
Count(seq, x) == Cardinality({i \in 1..Len(seq) : seq[i] = x})

\* the calls a pass of addTags over these items makes, in their order
RECURSIVE TagCalls(_)
TagCalls(items) ==
    IF items = <<>> THEN <<>>
    ELSE <<"addTag">> \o [i \in 1..Len(Head(items).defaultResources) |-> "tagResource"]
         \o TagCalls(Tail(items))

\* the items of a batch that carry a resource which passes its own check
LoadedItems(items) ==
    {i \in 1..Len(items) : ~items[i].resource.null /\ items[i].resource.valid}

\* C15: addResources and addTags return success; addResources calls
\* addResource once for every item that has a resource, a failed item between
\* them or not, so that on a valid cache every item whose resource passes its
\* check gets its version row; addTags calls addTag once for every item and
\* tagResource once for each of its default resources, in the iterator's order,
\* so that on a valid cache every tag of the batch is in the catalog.
C15_BatchesAreBestEffort ==
    [][/\ last'.op = "addResources"
            => /\ last'.ret
               /\ Count(last'.calls, "addResource")
                    = Cardinality({i \in 1..Len(last'.items) : ~last'.items[i].resource.null})
               /\ (s_valid /\ Range(tables) \subseteq dbTables)
                    => \A i \in LoadedItems(last'.items) :
                          LET f == last'.items[i].resource.filename
                          IN  BagCardinality(RowsOfFile(versioned_resources', f))
                                >= BagCardinality(RowsOfFile(versioned_resources, f))
                                   + Cardinality({j \in LoadedItems(last'.items) :
                                                    last'.items[j].resource.filename = f})
       /\ last'.op = "addTags"
            => /\ last'.ret
               /\ last'.calls = TagCalls(last'.items)
               /\ (s_valid /\ Range(tables) \subseteq dbTables)
                    => \A i \in 1..Len(last'.items) :
                          SelectTag(Db', last'.items[i].url, resourceTypes[1]) # {}]_vars

\* C15 happens: addResources on a valid cache over a batch whose first
\* resource fails its check and whose second one was added.
C15_Witness ==
    /\ last.op = "addResources"
    /\ last.valid
    /\ last.ret
    /\ Len(last.items) = 2
    /\ ~last.items[1].resource.null
    /\ ~last.items[1].resource.valid
    /\ 2 \in LoadedItems(last.items)
    /\ RowsOfFile(versioned_resources, last.items[2].resource.filename) # EmptyBag

\* C16: a call of addResource in which addResourceVersion fails at one of
\* its statements returns failure.
C16_FailedStatementFailsTheCall ==
    [][(/\ last'.op = "addResource"
        /\ "addResourceVersion" \in Range(last'.calls)
        /\ ~AddResourceVersion(Db,
                               ResourceIdForResource(Db, last'.resource.filename,
                                                     last'.resourceType),
                               last'.timestamp, [location |-> last'.location],
                               last'.resource).ret)
       => ~last'.ret]_vars

\* C17: addResource on a valid cache for a (filename, resourceType) without a
\* Resource row returns success, inserts one Resource row with status active
\* and one version row, with version 1 and the id of that Resource row.
C17_FirstAddLinksVersionToResource ==
    [][(/\ last'.op = "addResource"
        /\ s_valid
        /\ Range(tables) \subseteq dbTables
        /\ ~last'.resource.null
        /\ last'.resource.valid
        /\ ResourceIdForResource(Db, last'.resource.filename, last'.resourceType) = NotFound)
       => /\ last'.ret
          /\ resources \subseteq resources'
          /\ Cardinality(resources') = Cardinality(resources) + 1
          /\ \A r \in resources' \ resources :
                /\ r.filename = last'.resource.filename
                /\ r.status = 1
                /\ \E v \in BagToSet(versioned_resources') :
                      /\ v.resource_id = r.id
                      /\ v.version = 1
                      /\ versioned_resources' = versioned_resources (+) SetToBag({v})]_vars

\* C18: resourceNeedsUpdating, as addResource calls it for an indexed
\* resource, is true only if the resource has a version row and the candidate
\* timestamp is strictly greater than the timestamp of a row with the maximum
\* version, and false only if there is no version row or the candidate is not
\* greater than the timestamp of such a row; addResourceVersion is called
\* exactly when it is true.
C18_NeedsUpdatingIsStrictlyNewer ==
    [][(/\ last'.op = "addResource"
        /\ "resourceNeedsUpdating" \in Range(last'.calls))
       => LET id == ResourceIdForResource(Db, last'.resource.filename, last'.resourceType)
              latest == {v \in VersionsOf(Db, id) : v.version = MaxVersion(Db, id)}
          IN  IF "addResourceVersion" \in Range(last'.calls)
              THEN \E v \in latest : last'.timestamp > v.timestamp
              ELSE \/ VersionsOf(Db, id) = {}
                   \/ \E v \in latest : last'.timestamp <= v.timestamp]_vars

\* C18 happens: addResource found the resource newer than its latest version
\* row and called addResourceVersion.
C18_Witness ==
    /\ last.op = "addResource"
    /\ last.ret
    /\ last.calls = <<"resourceNeedsUpdating", "addResourceVersion">>
    /\ \E v \in BagToSet(versioned_resources) :
          /\ v.location = last.resource.filename
          /\ v.timestamp < last.timestamp

\* C19: addResourceVersion, as addResource calls it for a resource with
\* version rows, returns success, inserts one version row with the number
\* MAX(version) + 1 and writes the name, filename, tooltip and thumbnail of the
\* resource into its Resource row.
C19_AddResourceVersionAppends ==
    [][(/\ last'.op = "addResource"
        /\ "addResourceVersion" \in Range(last'.calls))
       => LET id == ResourceIdForResource(Db, last'.resource.filename, last'.resourceType)
              o == AddResourceVersion(Db, id, last'.timestamp,
                                      [location |-> last'.location], last'.resource)
          IN  /\ o.ret
              /\ \E v \in BagToSet(o.db.versioned_resources) :
                    /\ v.resource_id = id
                    /\ v.version = MaxVersion(Db, id) + 1
                    /\ o.db.versioned_resources = versioned_resources (+) SetToBag({v})
              /\ o.db.resources = UpdateResource(Db, id, last'.resource).resources]_vars

\* the resources that have a version row in the storage at this location and
\* a version row in another storage
SharedResources(D, location) ==
    {r \in D.resources :
        /\ StorageId(D, location) # NullId
        /\ \E v \in VersionsOf(D, r.id) : v.storage_id = StorageId(D, location)
        /\ \E v \in VersionsOf(D, r.id) : v.storage_id # StorageId(D, location)}

\* C20: deleteStorage removes a Resource row only if all the version rows of
\* the resource belong to the storage that is deleted, and every version row
\* of another storage that pointed at a Resource row still does.
C20_SharedResourceSurvives ==
    [][last'.op = "deleteStorage"
       => /\ \A r \in resources \ resources' :
                /\ StorageId(Db, last'.location) # NullId
                /\ \A v \in VersionsOf(Db, r.id) : v.storage_id = StorageId(Db, last'.location)
          /\ SharedResources(Db, last'.location) \subseteq resources'
          /\ \A v \in BagToSet(versioned_resources') :
                (/\ v.storage_id # StorageId(Db, last'.location)
                 /\ \E r \in resources : r.id = v.resource_id)
                => \E r \in resources' : r.id = v.resource_id]_vars

\* C20 happens: deleteStorage was called for a registered storage that shares
\* a resource with another storage, and the Resource row is there.
C20_Witness ==
    /\ last.op = "deleteStorage"
    /\ StorageId(Db, last.location) # NullId
    /\ SharedResources(Db, last.location) # {}

\* the order of deletion that keeps every reference of a version row intact
ChildrenFirst == <<"delete_versioned_resources", "delete_resources", "delete_storages">>

\* C21: deleteStorage runs its statements children first (version rows, then
\* resources, then the storage row), and after each of its statements no
\* version row is left that refers to a Resource row or to a storage row which
\* the statement has deleted.
C21_DeleteStorageChildrenFirst ==
    [][last'.op = "deleteStorageStatement"
       => /\ DeleteStatements[last'.statement] = ChildrenFirst[last'.statement]
          /\ \A v \in BagToSet(versioned_resources') :
                /\ \A r \in resources \ resources' : v.resource_id # r.id
                /\ \A row \in storages \ storages' : v.storage_id # row.id]_vars

\* the Resource rows without a version row of their own
Orphans(D) == {r \in D.resources : VersionsOf(D, r.id) = {}}

\* the items of a folder pass that carry a resource which passes its check
LoadedOfPass(items) ==
    UNION {{items[t][i] : i \in LoadedItems(items[t])} : t \in 1..Len(items)}

\* C22: on a valid cache an addResource, or a pass of synchronizeStorage over
\* a folder, that sees a resource whose Resource row has no version row of its
\* own leaves that Resource row with a version row of its own.
C22_OrphanIsRepaired ==
    [][/\ (/\ last'.op = "addResource"
           /\ s_valid
           /\ ~last'.resource.null
           /\ last'.resource.valid)
          => \A r \in Orphans(Db) :
                r.id = ResourceIdForResource(Db, last'.resource.filename, last'.resourceType)
                   => last'.ret /\ VersionsOf(Db', r.id) # {}
       /\ (/\ last'.op = "synchronizeStorage"
           /\ s_valid
           /\ last'.storage.type = "FOLDER")
          => \A item \in LoadedOfPass(last'.items) : \A r \in Orphans(Db) :
                r.id = ResourceIdForResource(Db, item.resource.filename, item.type)
                   => VersionsOf(Db', r.id) # {}]_vars

\* C22 happens: after an addResource or a folder pass, a Resource row has a
\* version row of its own although no version row with the not-found id was
\* ever written for its file: its own addResource never got to its INSERT
\* of the version, and a later call wrote the row.
C22_Witness ==
    /\ last.op \in {"addResource", "synchronizeStorage"}
    /\ last.valid
    /\ \E r \in resources :
          /\ VersionsOf(Db, r.id) # {}
          /\ \A v \in BagToSet(versioned_resources) :
                v.location = r.filename => v.resource_id = r.id

\* C23: after an initialize that went through the database file and reported
\* success, whatever the earlier starts met, version_information holds
\* exactly one row.
C23_OneVersionRecord ==
    (/\ last.op = "initialize"
     /\ last.ret
     /\ last.calls # <<"connected">>)
    => Len(version_information) = 1

\* C24: every version row carries the id of a row of resources: none carries
\* the not-found value -1 or another id without a Resource row.
C24_VersionRowsPointAtResources ==
    \A v \in BagToSet(versioned_resources) :
        /\ v.resource_id # NotFound
        /\ \E r \in resources : r.id = v.resource_id

\* the schema initDb establishes: an open connection, the eight tables, the
\* lookup tables filled and the version record written
SchemaEstablished ==
    /\ dbOpen
    /\ Range(tables) \subseteq dbTables
    /\ Range(storageTypes) \subseteq Range(origin_types)
    /\ Range(resourceTypes) \subseteq Range(resource_types)
    /\ version_information # <<>>

\* C25: the validity flag is true only if the connection is open and the
\* schema is established; an initialize after a failed one does not make it
\* true otherwise.
C25_ValidMeansSchemaEstablished == s_valid => SchemaEstablished

\* C26: synchronizeStorage on a registered storage that is not a folder takes
\* the destroy-and-recreate branch exactly when the current timestamp of the
\* storage is at least a second later than the one addStorage persisted.
C26_TimestampsShareAUnit ==
    [][(/\ last'.op = "synchronizeStorage"
        /\ s_valid
        /\ last'.storage.type # "FOLDER"
        /\ StorageRowsAt(storages, last'.storage.location) # {})
       => \A row \in StorageRowsAt(storages, last'.storage.location) :
             ("deleteStorage" \in Range(last'.calls))
                <=> (last'.storage.timestamp.secs >= row.timestamp.secs + 1)]_vars

====
